---- MODULE Spec2Model ----
(***************************************************************************)
(* Model of arraycontext/impl/pytato/outline.py: OutlinedCall.__call__ and *)
(* its helpers.  One outer call is a sequence of steps (flatten inputs,    *)
(* substitute placeholders, trace the wrapped function, flatten outputs,   *)
(* build the function definition, build the call site, repackage).        *)
(***************************************************************************)
EXTENDS Integers, Sequences, FiniteSets, TLC

\* ------------------------------------------------------------------ bounds
\* most positional arguments of one outer call
MaxPos == 2
\* most outer calls of the outlined callable in one behaviour
MaxCalls == 3
\* most positional arguments of a call when two calls are compared
DetMaxPos == 1

\* ------------------------------------------------------------------ state
VARIABLES
    f,                              \* OutlinedCall.f, fixed at construction
    pc,                             \* position of the current outer call
    args, kwargs,                   \* the caller's arguments
    arg_id_to_arg,
    input_id_to_name_in_function,
    pl_args, pl_kwargs,
    output,                         \* what the wrapped function returned
    returns, ret_type,
    func_def,
    call_parameters,
    call_site_output,
    result,                         \* what __call__ returned
    err,                            \* the exception __call__ raised, or "none"
    steps,                          \* the steps the current call has taken
    f_calls, defs_built, sites_built,   \* per outer call
    calls_started, calls_returned, sites_total,
    prev                            \* names of an earlier completed call

vars == <<f, pc, args, kwargs, arg_id_to_arg, input_id_to_name_in_function,
          pl_args, pl_kwargs, output, returns, ret_type, func_def,
          call_parameters, call_site_output, result, err, steps,
          f_calls, defs_built, sites_built,
          calls_started, calls_returned, sites_total, prev>>

locals == <<arg_id_to_arg, input_id_to_name_in_function, pl_args, pl_kwargs,
            output, returns, ret_type, func_def, call_parameters,
            call_site_output, result>>

counters == <<f_calls, defs_built, sites_built, calls_started, calls_returned,
              sites_total>>

\* ------------------------------------------------------------------ values
\* keys of argument identities: positional index (int) or keyword/field (str),
\* as <<type, int value, str value>>
IntKey(i) == <<"int", i, "">>
StrKey(s) == <<"str", 0, s>>

\* concrete array leaf (a pt.Array carrying data): shape, dtype, contents
Array(shape, data) == [kind |-> "array", shape |-> shape, dtype |-> "float64", data |-> data]

\* leaf contents a caller may supply
ArrayData == {0, 1}

\* the State container of examples/how_to_outline.py: mass and vel[0]
State(d) == [kind |-> "container", type |-> "State",
             leaves |-> (<<StrKey("mass")>> :> Array(<<4, 10>>, d)) @@
                        (<<StrKey("vel"), IntKey(0)>> :> Array(<<3, 4, 10>>, d))]

\* values a caller may pass: a number and a string (both np.isscalar), None,
\* arrays and containers
NumScalar == [kind |-> "scalar", num |-> 3]
StrValue  == [kind |-> "str", text |-> "s"]
NoneValue == [kind |-> "none"]
TupleValue == [kind |-> "tuple"]
ArgValues == {NumScalar, StrValue, NoneValue}
             \cup {Array(<<4, 10>>, d) : d \in ArrayData}
             \cup {State(d) : d \in ArrayData}

KwNames == {"k"}
PosArgLists == UNION {[1..n -> ArgValues] : n \in 0..MaxPos}
KwArgMaps == UNION {[K -> ArgValues] : K \in SUBSET KwNames}

\* the calls compared for determinism: no argument kind that raises
DetValues == {NumScalar} \cup {Array(<<4, 10>>, d) : d \in ArrayData}
             \cup {State(d) : d \in ArrayData}
DetKwValues == {NumScalar} \cup {Array(<<4, 10>>, d) : d \in ArrayData}
DetPosArgLists == UNION {[1..n -> DetValues] : n \in 0..DetMaxPos}
DetKwArgMaps == UNION {[K -> DetKwValues] : K \in SUBSET KwNames}

\* the wrapped functions: return the first argument; combine all arguments
\* arithmetically (as foo of the example); return a tuple
Functions == {"first", "combine", "tuple"}

Tags == {"FunctionIdentifier(foo)"}

Unset == [kind |-> "unset"]
KeyErrorName == <<"KeyError">>
NotImplementedValue == [kind |-> "NotImplementedError"]

\* ------------------------------------------------------------------ type tests
np_isscalar(v) == v.kind \in {"scalar", "str"}

is_array_container_type(v) == v.kind = "container"

isinstance_pt_Array(v) == v.kind \in {"array", "placeholder", "expr", "named_result"}

make_placeholder(name, shape, dtype) ==
    [kind |-> "placeholder", name |-> name, shape |-> shape, dtype |-> dtype]

\* a container of the same type, its leaves replaced by mapped[keys]
rec_keyed_map_array_container(mapped, c) ==
    [c EXCEPT !.leaves = [keys \in DOMAIN c.leaves |-> mapped[keys]]]

Range(fn) == {fn[x] : x \in DOMAIN fn}

\* ------------------------------------------------------------------ naming
Digits == <<"0", "1", "2", "3", "4", "5", "6", "7", "8", "9">>

\* str(i) of a small non-negative int
IntStr(i) == Digits[i + 1]

KeyStr(key) == IF key[1] = "int" THEN IntStr(key[2]) ELSE key[3]

RECURSIVE _ary_container_key_stringifier(_)
_ary_container_key_stringifier(keys) ==
    IF Len(keys) = 0 THEN <<>>
    ELSE IF Len(keys) = 1 THEN <<KeyStr(keys[1])>>
    ELSE <<KeyStr(keys[1]), "_">> \o _ary_container_key_stringifier(Tail(keys))

\* a name that leaves out the argument's own key
InputNameWithoutArgKey(arg_id) ==
    <<"_actx_in_">> \o _ary_container_key_stringifier(Tail(arg_id))

\* a name drawn from a counter of calls, as a fresh-name generator would
InputNameNumbered(arg_id) ==
    <<"_actx_in_", IntStr(calls_started), "_">> \o _ary_container_key_stringifier(arg_id)

_get_input_arg_id_str(arg_id) == <<"_actx_in_">> \o _ary_container_key_stringifier(arg_id)

_get_output_arg_id_str(arg_id) == <<"_actx_out_">> \o _ary_container_key_stringifier(arg_id)

\* ------------------------------------------------------------------ flattening
\* the (kw, arg) pairs of itertools.chain(enumerate(args), kwargs.items())
ArgKeys(a, kw) == {IntKey(i - 1) : i \in 1..Len(a)} \cup {StrKey(k) : k \in DOMAIN kw}

ArgOf(a, kw, key) == IF key[1] = "int" THEN a[key[2] + 1] ELSE kw[key[3]]

\* scalars collected like arrays
ArgIdsWithScalars(kw, arg) ==
    IF is_array_container_type(arg)
    THEN {<<kw>> \o keys : keys \in DOMAIN arg.leaves}
    ELSE IF isinstance_pt_Array(arg) \/ np_isscalar(arg) THEN {<<kw>>}
    ELSE {}

\* the identities one argument adds to arg_id_to_arg
ArgIds(kw, arg) ==
    IF np_isscalar(arg) THEN {}
    ELSE IF is_array_container_type(arg)
         THEN {<<kw>> \o keys : keys \in DOMAIN arg.leaves}
    ELSE IF isinstance_pt_Array(arg) THEN {<<kw>>}
    ELSE {}

\* no else branch: nothing is rejected
ArgNeverRaises(arg) == FALSE

\* the else branch: raise ValueError
ArgRaises(arg) ==
    /\ ~np_isscalar(arg)
    /\ ~is_array_container_type(arg)
    /\ ~isinstance_pt_Array(arg)

\* the value stored under an identity of argument arg
ArgLeaf(arg, arg_id) ==
    IF is_array_container_type(arg) THEN arg.leaves[Tail(arg_id)] ELSE arg

_get_arg_id_to_arg(a, kw) ==
    IF \E key \in ArgKeys(a, kw) : ArgRaises(ArgOf(a, kw, key))
    THEN [exc |-> "ValueError"]
    ELSE [ok |-> [arg_id \in UNION {ArgIds(key, ArgOf(a, kw, key)) : key \in ArgKeys(a, kw)}
                    |-> ArgLeaf(ArgOf(a, kw, arg_id[1]), arg_id)]]

\* ------------------------------------------------------------------ placeholders
\* arg_id_to_name[arg_id], a KeyError when absent
Lookup(arg_id_to_name, arg_id) ==
    IF arg_id \in DOMAIN arg_id_to_name THEN arg_id_to_name[arg_id] ELSE KeyErrorName

\* a container's leaves looked up under the argument's key alone
PlaceholderByTopKey(arg, kw, arg_id_to_name) ==
    IF np_isscalar(arg) THEN arg
    ELSE IF isinstance_pt_Array(arg)
         THEN make_placeholder(Lookup(arg_id_to_name, <<kw>>), arg.shape, arg.dtype)
    ELSE IF is_array_container_type(arg)
         THEN LET _rec_to_placeholder(keys, ary) ==
                      make_placeholder(Lookup(arg_id_to_name, <<kw>>),
                                       ary.shape, ary.dtype)
              IN rec_keyed_map_array_container(
                     [keys \in DOMAIN arg.leaves |->
                         _rec_to_placeholder(keys, arg.leaves[keys])], arg)
    ELSE NotImplementedValue

_get_placeholder_replacement(arg, kw, arg_id_to_name) ==
    IF np_isscalar(arg) THEN arg
    ELSE IF isinstance_pt_Array(arg)
         THEN make_placeholder(Lookup(arg_id_to_name, <<kw>>), arg.shape, arg.dtype)
    ELSE IF is_array_container_type(arg)
         THEN LET _rec_to_placeholder(keys, ary) ==
                      make_placeholder(Lookup(arg_id_to_name, <<kw>> \o keys),
                                       ary.shape, ary.dtype)
              IN rec_keyed_map_array_container(
                     [keys \in DOMAIN arg.leaves |->
                         _rec_to_placeholder(keys, arg.leaves[keys])], arg)
    ELSE NotImplementedValue

\* the array leaves of a value: itself, or the leaves of a container
Leaves(v) ==
    IF v.kind = "container" THEN Range(v.leaves)
    ELSE IF isinstance_pt_Array(v) THEN {v}
    ELSE {}

AllValues(a, kw) == Range(a) \cup Range(kw)

AllLeaves(a, kw) == UNION {Leaves(v) : v \in AllValues(a, kw)}

\* ------------------------------------------------------------------ wrapped function
Expr(deps, consts) == [kind |-> "expr", deps |-> deps, consts |-> consts]

TopNames(a, kw) == {v.name : v \in {w \in AllValues(a, kw) : w.kind = "placeholder"}}

Consts(a, kw) == {v.num : v \in {w \in AllValues(a, kw) : w.kind = "scalar"}}

Containers(a, kw) == {v \in AllValues(a, kw) : v.kind = "container"}

\* 2*x1 + 3*x2 + ... with container arithmetic broadcasting arrays and numbers
Combine(a, kw) ==
    IF Containers(a, kw) # {}
    THEN LET c == CHOOSE v \in Containers(a, kw) : TRUE
         IN [kind |-> "container", type |-> c.type,
             leaves |-> [keys \in DOMAIN c.leaves |->
                            Expr({v.leaves[keys].name : v \in Containers(a, kw)}
                                 \cup TopNames(a, kw), Consts(a, kw))]]
    ELSE IF TopNames(a, kw) # {} THEN Expr(TopNames(a, kw), Consts(a, kw))
    ELSE IF Consts(a, kw) # {} THEN NumScalar
    ELSE NoneValue

First(a, kw) ==
    IF Len(a) > 0 THEN a[1]
    ELSE IF DOMAIN kw # {} THEN kw[CHOOSE k \in DOMAIN kw : TRUE]
    ELSE NoneValue

\* self.f(*pl_args, **pl_kwargs)
ApplyF(fn, a, kw) ==
    CASE fn = "first" -> First(a, kw)
      [] fn = "combine" -> Combine(a, kw)
      [] OTHER -> TupleValue

\* ------------------------------------------------------------------ outputs
\* returns and ret_type of the traced output
Returns(out) ==
    IF isinstance_pt_Array(out) THEN (<<"_">> :> out)
    ELSE [name \in {_get_output_arg_id_str(key) : key \in DOMAIN out.leaves} |->
            out.leaves[CHOOSE key \in DOMAIN out.leaves : _get_output_arg_id_str(key) = name]]

\* every output declared a dict of arrays
RetTypeAlwaysDict(out) == "DICT_OF_ARRAYS"

RetType(out) == IF isinstance_pt_Array(out) THEN "ARRAY" ELSE "DICT_OF_ARRAYS"

OutputRaises(out) == ~isinstance_pt_Array(out) /\ ~is_array_container_type(out)

FunctionDefinition(parameters, return_type, rets, tags) ==
    [parameters |-> parameters, return_type |-> return_type, returns |-> rets, tags |-> tags]

InputIdToName(id2arg) == [arg_id \in DOMAIN id2arg |-> _get_input_arg_id_str(arg_id)]

\* the call site bound to the placeholders instead of the caller's arrays
CallParametersPlaceholders(id2name, id2arg) ==
    [name \in Range(id2name) |->
        LET ary == id2arg[CHOOSE arg_id \in DOMAIN id2arg : id2name[arg_id] = name]
        IN make_placeholder(name, ary.shape, ary.dtype)]

CallParameters(id2name, id2arg) ==
    [name \in Range(id2name) |->
        id2arg[CHOOSE arg_id \in DOMAIN id2arg : id2name[arg_id] = name]]

\* func_def(**call_parameters): the call site, or its "_" result for ARRAY
CallFunctionDefinition(fd, bindings, site) ==
    IF fd.return_type = "ARRAY"
    THEN [kind |-> "named_result", site |-> site, name |-> <<"_">>]
    ELSE [kind |-> "call", site |-> site, keys |-> DOMAIN fd.returns]

\* call_site_output[key]
CallSiteGet(cs, key) ==
    IF key \in cs.keys THEN [kind |-> "named_result", site |-> cs.site, name |-> key]
    ELSE [kind |-> "KeyError"]

PackKey(key) == _get_output_arg_id_str(key)

\* the call site handed back without repacking
RepackFlat(out, cs) == cs

Repack(out, cs) ==
    IF isinstance_pt_Array(out) THEN cs
    ELSE LET _pack_into_container(key, ary) == CallSiteGet(cs, PackKey(key))
         IN rec_keyed_map_array_container(
                [key \in DOMAIN out.leaves |->
                    _pack_into_container(key, out.leaves[key])], out)

\* ------------------------------------------------------------------ actions
NoPrev == [kind |-> "none"]

Init ==
    /\ f \in Functions
    /\ pc = "idle"
    /\ args = <<>>
    /\ kwargs = <<>>
    /\ arg_id_to_arg = <<>>
    /\ input_id_to_name_in_function = <<>>
    /\ pl_args = <<>>
    /\ pl_kwargs = <<>>
    /\ output = Unset
    /\ returns = <<>>
    /\ ret_type = "unset"
    /\ func_def = Unset
    /\ call_parameters = <<>>
    /\ call_site_output = Unset
    /\ result = Unset
    /\ err = "none"
    /\ steps = <<>>
    /\ f_calls = 0
    /\ defs_built = 0
    /\ sites_built = 0
    /\ calls_started = 0
    /\ calls_returned = 0
    /\ sites_total = 0
    /\ prev = NoPrev

\* the caller invokes the outlined callable with a and kw
Enter(a, kw) ==
    /\ pc = "idle"
    /\ calls_started < MaxCalls
    /\ args' = a
    /\ kwargs' = kw
    /\ pc' = "flatten"
    /\ calls_started' = calls_started + 1
    /\ UNCHANGED <<f, locals, err, steps, f_calls, defs_built, sites_built,
                   calls_returned, sites_total, prev>>

Call == \E a \in PosArgLists, kw \in KwArgMaps : Enter(a, kw)

\* arg_id_to_arg and input_id_to_name_in_function
FlattenInputs ==
    /\ pc = "flatten"
    /\ steps' = Append(steps, "flatten")
    /\ LET r == _get_arg_id_to_arg(args, kwargs)
       IN IF "exc" \in DOMAIN r
          THEN /\ err' = r.exc
               /\ pc' = "raised"
               /\ UNCHANGED <<arg_id_to_arg, input_id_to_name_in_function>>
          ELSE /\ arg_id_to_arg' = r.ok
               /\ input_id_to_name_in_function' = InputIdToName(r.ok)
               /\ pc' = "substitute"
               /\ err' = "none"
    /\ UNCHANGED <<f, args, kwargs, pl_args, pl_kwargs, output, returns, ret_type,
                   func_def, call_parameters, call_site_output, result, counters, prev>>

\* pl_args and pl_kwargs
Substitute ==
    /\ pc = "substitute"
    /\ steps' = Append(steps, "substitute")
    /\ LET pa == [i \in DOMAIN args |->
                    _get_placeholder_replacement(args[i], IntKey(i - 1),
                                                 input_id_to_name_in_function)]
           pk == [k \in DOMAIN kwargs |->
                    _get_placeholder_replacement(kwargs[k], StrKey(k),
                                                 input_id_to_name_in_function)]
       IN IF \E p \in AllLeaves(pa, pk) : p.name = KeyErrorName
          THEN /\ err' = "KeyError"
               /\ pc' = "raised"
               /\ UNCHANGED <<pl_args, pl_kwargs>>
          ELSE IF NotImplementedValue \in AllValues(pa, pk)
          THEN /\ err' = "NotImplementedError(arg)"
               /\ pc' = "raised"
               /\ UNCHANGED <<pl_args, pl_kwargs>>
          ELSE /\ pl_args' = pa
               /\ pl_kwargs' = pk
               /\ pc' = "trace"
               /\ err' = "none"
    /\ UNCHANGED <<f, args, kwargs, arg_id_to_arg, input_id_to_name_in_function,
                   output, returns, ret_type, func_def, call_parameters,
                   call_site_output, result, counters, prev>>

\* output = self.f(*pl_args, **pl_kwargs)
Trace ==
    /\ pc = "trace"
    /\ steps' = Append(steps, "trace")
    /\ output' = ApplyF(f, pl_args, pl_kwargs)
    /\ f_calls' = f_calls + 1
    /\ pc' = "flatten_out"
    /\ UNCHANGED <<f, args, kwargs, arg_id_to_arg, input_id_to_name_in_function,
                   pl_args, pl_kwargs, returns, ret_type, func_def, call_parameters,
                   call_site_output, result, err, defs_built, sites_built,
                   calls_started, calls_returned, sites_total, prev>>

\* the output's type checked only after the definition is built
FlattenOutputsLate ==
    /\ pc = "flatten_out"
    /\ steps' = Append(steps, "flatten_out")
    /\ IF OutputRaises(output)
       THEN /\ err' = "NotImplementedError"
            /\ pc' = "raised"
            /\ func_def' = FunctionDefinition(Range(input_id_to_name_in_function),
                                              "ARRAY", <<>>, Tags)
            /\ defs_built' = defs_built + 1
            /\ UNCHANGED <<returns, ret_type>>
       ELSE /\ returns' = Returns(output)
            /\ ret_type' = RetType(output)
            /\ pc' = "build_def"
            /\ err' = "none"
            /\ UNCHANGED <<func_def, defs_built>>
    /\ UNCHANGED <<f, args, kwargs, arg_id_to_arg, input_id_to_name_in_function,
                   pl_args, pl_kwargs, output, call_parameters,
                   call_site_output, result, f_calls, sites_built, calls_started,
                   calls_returned, sites_total, prev>>

\* returns and ret_type, or NotImplementedError(type(output))
FlattenOutputs ==
    /\ pc = "flatten_out"
    /\ steps' = Append(steps, "flatten_out")
    /\ IF OutputRaises(output)
       THEN /\ err' = "NotImplementedError"
            /\ pc' = "raised"
            /\ UNCHANGED <<returns, ret_type>>
       ELSE /\ returns' = Returns(output)
            /\ ret_type' = RetType(output)
            /\ pc' = "build_def"
            /\ err' = "none"
    /\ UNCHANGED <<f, args, kwargs, arg_id_to_arg, input_id_to_name_in_function,
                   pl_args, pl_kwargs, output, func_def, call_parameters,
                   call_site_output, result, counters, prev>>

\* func_def = pt.function.FunctionDefinition(...)
BuildDefinition ==
    /\ pc = "build_def"
    /\ steps' = Append(steps, "build_def")
    /\ func_def' = FunctionDefinition(Range(input_id_to_name_in_function),
                                      ret_type, returns, Tags)
    /\ defs_built' = defs_built + 1
    /\ pc' = "build_site"
    /\ UNCHANGED <<f, args, kwargs, arg_id_to_arg, input_id_to_name_in_function,
                   pl_args, pl_kwargs, output, returns, ret_type, call_parameters,
                   call_site_output, result, err, f_calls, sites_built,
                   calls_started, calls_returned, sites_total, prev>>

\* the definition called once per parameter
BuildCallSitePerParameter ==
    /\ pc = "build_site"
    /\ steps' = Append(steps, "build_site")
    /\ call_parameters' = CallParameters(input_id_to_name_in_function, arg_id_to_arg)
    /\ call_site_output' = CallFunctionDefinition(func_def, call_parameters',
                                                  sites_total + 1)
    /\ sites_built' = sites_built + Cardinality(DOMAIN call_parameters')
    /\ sites_total' = sites_total + Cardinality(DOMAIN call_parameters')
    /\ pc' = "repackage"
    /\ UNCHANGED <<f, args, kwargs, arg_id_to_arg, input_id_to_name_in_function,
                   pl_args, pl_kwargs, output, returns, ret_type, func_def,
                   result, err, f_calls, defs_built, calls_started, calls_returned,
                   prev>>

\* call_site_output = func_def(**call_parameters)
BuildCallSite ==
    /\ pc = "build_site"
    /\ steps' = Append(steps, "build_site")
    /\ call_parameters' = CallParameters(input_id_to_name_in_function, arg_id_to_arg)
    /\ call_site_output' = CallFunctionDefinition(func_def, call_parameters',
                                                  sites_total + 1)
    /\ sites_built' = sites_built + 1
    /\ sites_total' = sites_total + 1
    /\ pc' = "repackage"
    /\ UNCHANGED <<f, args, kwargs, arg_id_to_arg, input_id_to_name_in_function,
                   pl_args, pl_kwargs, output, returns, ret_type, func_def,
                   result, err, f_calls, defs_built, calls_started, calls_returned,
                   prev>>

Summary ==
    [args |-> args, kwargs |-> kwargs, call |-> calls_returned + 1,
     parameters |-> func_def.parameters,
     return_names |-> DOMAIN func_def.returns]

\* the result handed back to the caller
Finish(remember) ==
    /\ pc = "repackage"
    /\ steps' = Append(steps, "repackage")
    /\ LET r == Repack(output, call_site_output)
       IN IF r.kind = "container" /\ [kind |-> "KeyError"] \in Range(r.leaves)
          THEN /\ err' = "KeyError"
               /\ pc' = "raised"
               /\ UNCHANGED <<result, calls_returned, prev>>
          ELSE /\ result' = r
               /\ pc' = "returned"
               /\ err' = "none"
               /\ calls_returned' = calls_returned + 1
               /\ prev' = IF remember THEN Summary ELSE prev
    /\ UNCHANGED <<f, args, kwargs, arg_id_to_arg, input_id_to_name_in_function,
                   pl_args, pl_kwargs, output, returns, ret_type, func_def,
                   call_parameters, call_site_output, f_calls, defs_built,
                   sites_built, calls_started, sites_total>>

Repackage == Finish(FALSE)

\* the frame of __call__ is gone once the caller has the result or the exception
Unwind ==
    /\ pc \in {"returned", "raised"}
    /\ pc' = "idle"
    /\ args' = <<>>
    /\ kwargs' = <<>>
    /\ arg_id_to_arg' = <<>>
    /\ input_id_to_name_in_function' = <<>>
    /\ pl_args' = <<>>
    /\ pl_kwargs' = <<>>
    /\ output' = Unset
    /\ returns' = <<>>
    /\ ret_type' = "unset"
    /\ func_def' = Unset
    /\ call_parameters' = <<>>
    /\ call_site_output' = Unset
    /\ result' = Unset
    /\ err' = "none"
    /\ steps' = <<>>
    /\ f_calls' = 0
    /\ defs_built' = 0
    /\ sites_built' = 0
    /\ UNCHANGED <<f, calls_started, calls_returned, sites_total, prev>>

Next ==
    \/ Call
    \/ FlattenInputs
    \/ Substitute
    \/ Trace
    \/ FlattenOutputs
    \/ BuildDefinition
    \/ BuildCallSite
    \/ Repackage
    \/ Unwind

Spec == Init /\ [][Next]_vars

\* the same program, with the names of one earlier completed call kept for
\* comparison with those of later calls
CallDet == \E a \in DetPosArgLists, kw \in DetKwArgMaps : Enter(a, kw)

RepackageRemember == \E remember \in BOOLEAN : Finish(remember)

NextDet ==
    \/ CallDet
    \/ FlattenInputs
    \/ Substitute
    \/ Trace
    \/ FlattenOutputs
    \/ BuildDefinition
    \/ BuildCallSite
    \/ RepackageRemember
    \/ Unwind

SpecDet == Init /\ [][NextDet]_vars

\* ------------------------------------------------------------------ properties
\* the leaf the caller supplied at an identity, read off args and kwargs
OriginalLeaf(arg_id) ==
    LET top == IF arg_id[1][1] = "int" THEN args[arg_id[1][2] + 1] ELSE kwargs[arg_id[1][3]]
    IN IF Len(arg_id) = 1 THEN top ELSE top.leaves[Tail(arg_id)]

AfterSubstitute ==
    {"trace", "flatten_out", "build_def", "build_site", "repackage", "returned"}

Built == {"repackage", "returned"}

\* C1: once the definition and the call site are built, the definition's
\* parameters and the keys of the call-site bindings are both exactly the
\* input names of the flattened identities, and each binding holds the
\* caller's own array at that identity, not a placeholder.
C1_ParametersAndBindings ==
    pc \in Built =>
        LET names == {_get_input_arg_id_str(arg_id) : arg_id \in DOMAIN arg_id_to_arg}
        IN /\ func_def.parameters = names
           /\ DOMAIN call_parameters = names
           /\ \A arg_id \in DOMAIN arg_id_to_arg :
                 /\ call_parameters[_get_input_arg_id_str(arg_id)] = OriginalLeaf(arg_id)
                 /\ OriginalLeaf(arg_id).kind = "array"

C1_Witness ==
    /\ pc = "returned"
    /\ Cardinality(DOMAIN call_parameters) >= 3
    /\ DOMAIN kwargs # {}

\* C2: the returned value has the structure of the traced output: the call
\* site output itself for a single array; for a container, a container of the
\* same type and leaf paths whose leaf at p is call_site_output[output_name(p)],
\* a key of the definition's returns (the lookup never fails).
C2_ResultHasOutputStructure ==
    /\ ~(pc = "raised" /\ err = "KeyError")
    /\ pc = "returned" =>
          IF isinstance_pt_Array(output) THEN result = call_site_output
          ELSE /\ result.kind = "container"
               /\ result.type = output.type
               /\ DOMAIN result.leaves = DOMAIN output.leaves
               /\ \A path \in DOMAIN output.leaves :
                     /\ _get_output_arg_id_str(path) \in DOMAIN func_def.returns
                     /\ result.leaves[path] =
                            [kind |-> "named_result", site |-> call_site_output.site,
                             name |-> _get_output_arg_id_str(path)]

C2_Witness ==
    /\ pc = "returned"
    /\ output.kind = "container"
    /\ result.kind = "container"
    /\ f = "combine"

ScalarKeys == {key \in ArgKeys(args, kwargs) : np_isscalar(ArgOf(args, kwargs, key))}

\* C3: a scalar argument has no identity in the flattened mapping, reaches the
\* wrapped function unchanged at its own position, and has no parameter of
\* the definition and no binding of the call site.
C3_ScalarsAreInlined ==
    \A key \in ScalarKeys :
        /\ \A arg_id \in DOMAIN arg_id_to_arg : arg_id[1] # key
        /\ pc \in AfterSubstitute =>
              ArgOf(pl_args, pl_kwargs, key) = ArgOf(args, kwargs, key)
        /\ pc \in Built =>
              /\ _get_input_arg_id_str(<<key>>) \notin func_def.parameters
              /\ _get_input_arg_id_str(<<key>>) \notin DOMAIN call_parameters
              /\ \A name \in DOMAIN call_parameters : ~np_isscalar(call_parameters[name])

C3_Witness ==
    /\ pc = "returned"
    /\ \E i \in DOMAIN args : np_isscalar(args[i])
    /\ \E k \in DOMAIN kwargs : np_isscalar(kwargs[k])
    /\ DOMAIN arg_id_to_arg # {}

CallOrder ==
    <<"flatten", "substitute", "trace", "flatten_out", "build_def", "build_site",
      "repackage">>

\* C4: a call that returns has taken the seven steps in order, invoked the
\* wrapped function once and built one definition and one call site; no call
\* does any of these twice; between calls the number of call sites created
\* equals the number of calls that returned; a call starts from a fresh frame.
C4_OncePerCall ==
    /\ pc = "returned" =>
          /\ steps = CallOrder
          /\ f_calls = 1
          /\ defs_built = 1
          /\ sites_built = 1
    /\ f_calls <= 1 /\ defs_built <= 1 /\ sites_built <= 1
    /\ pc \in {"idle", "returned", "raised"} => sites_total = calls_returned
    /\ pc = "flatten" =>
          /\ arg_id_to_arg = <<>> /\ input_id_to_name_in_function = <<>>
          /\ pl_args = <<>> /\ pl_kwargs = <<>> /\ output = Unset
          /\ returns = <<>> /\ func_def = Unset /\ call_parameters = <<>>
          /\ call_site_output = Unset /\ result = Unset

C4_Witness ==
    /\ pc = "returned"
    /\ calls_started = 3
    /\ calls_returned = 2
    /\ sites_total = 2
    /\ Cardinality(DOMAIN call_parameters) >= 2

\* a value with the contents of its array leaves erased
Erase(v) ==
    IF v.kind = "array" THEN [v EXCEPT !.data = 0]
    ELSE IF v.kind = "container"
         THEN [v EXCEPT !.leaves = [keys \in DOMAIN v.leaves |-> [v.leaves[keys] EXCEPT !.data = 0]]]
    ELSE v

Structure(a, kw) ==
    [pos |-> [i \in DOMAIN a |-> Erase(a[i])], kws |-> [k \in DOMAIN kw |-> Erase(kw[k])]]

\* C5: a call that returns with arguments of the same structure as an earlier
\* completed call (same keys, leaf paths, shapes, dtypes and scalars; array
\* contents free) gives its definition the same parameter names and the same
\* return names as the earlier call's, whatever was called in between.
C5_SameStructureSameNames ==
    (/\ pc = "returned"
     /\ prev # NoPrev
     /\ Structure(prev.args, prev.kwargs) = Structure(args, kwargs)) =>
        /\ func_def.parameters = prev.parameters
        /\ DOMAIN func_def.returns = prev.return_names

C5_Witness ==
    /\ pc = "returned"
    /\ prev # NoPrev
    /\ prev.call + 2 = calls_returned
    /\ Structure(prev.args, prev.kwargs) = Structure(args, kwargs)
    /\ <<prev.args, prev.kwargs>> # <<args, kwargs>>
    /\ Cardinality(prev.parameters) >= 2

\* C6: within one call distinct input identities have distinct names, distinct
\* output leaf paths have distinct names, and no input name is a return name
\* of the definition, the single-array return name "_" included.
C6_NamesInjectiveAndDisjoint ==
    /\ \A id1, id2 \in DOMAIN input_id_to_name_in_function :
          id1 # id2 => input_id_to_name_in_function[id1] # input_id_to_name_in_function[id2]
    /\ output.kind = "container" =>
          \A p1, p2 \in DOMAIN output.leaves :
              p1 # p2 => _get_output_arg_id_str(p1) # _get_output_arg_id_str(p2)
    /\ Range(input_id_to_name_in_function) \cap DOMAIN returns = {}
    /\ <<"_">> \notin Range(input_id_to_name_in_function)
    /\ pc \in Built =>
          /\ func_def.parameters \cap DOMAIN func_def.returns = {}
          /\ Cardinality(func_def.parameters) = Cardinality(DOMAIN arg_id_to_arg)

C6_Witness ==
    /\ pc = "returned"
    /\ Cardinality(DOMAIN input_id_to_name_in_function) >= 5
    /\ ret_type = "DICT_OF_ARRAYS"

\* C7 as stated: an argument that is a string or None, at any position, makes
\* the call raise ValueError in the flattener, before any placeholder exists
\* and without the wrapped function, a definition or a call site.
C7_StringArgumentRaises ==
    (/\ pc \notin {"idle", "flatten"}
     /\ \E v \in AllValues(args, kwargs) : v.kind \in {"str", "none"}) =>
        /\ pc = "raised"
        /\ err = "ValueError"
        /\ f_calls = 0

\* C7 amended: an argument that is none of np.isscalar (which a string is),
\* pt.Array or array container, at any position, makes the call raise
\* ValueError in the flattener: no placeholder, no invocation of the wrapped
\* function, no definition and no call site; nothing else raises ValueError.
C7_InvalidArgumentRaisesFirst ==
    /\ (/\ pc \notin {"idle", "flatten"}
        /\ \E v \in AllValues(args, kwargs) : v.kind = "none") =>
           /\ pc = "raised"
           /\ err = "ValueError"
           /\ steps = <<"flatten">>
           /\ pl_args = <<>> /\ pl_kwargs = <<>>
           /\ f_calls = 0 /\ defs_built = 0 /\ sites_built = 0
           /\ func_def = Unset /\ call_site_output = Unset /\ result = Unset
    /\ err = "ValueError" => \E v \in AllValues(args, kwargs) : v.kind = "none"

C7_Witness ==
    /\ pc = "raised"
    /\ err = "ValueError"
    /\ NoneValue \in Range(kwargs)
    /\ \E i \in DOMAIN args : args[i].kind = "container"

OutputUnsupported(out) == out.kind \in {"tuple", "none", "scalar", "str"}

\* C8: when the wrapped function returns neither an array nor a container the
\* call raises NotImplementedError, having invoked the wrapped function once
\* and built no definition and no call site, and returns nothing.
C8_UnsupportedReturnRaises ==
    /\ (/\ pc \in {"build_def", "build_site", "repackage", "returned", "raised"}
        /\ OutputUnsupported(output)) =>
           /\ pc = "raised"
           /\ err = "NotImplementedError"
    /\ (pc = "raised" /\ err = "NotImplementedError") =>
           /\ OutputUnsupported(output)
           /\ steps = <<"flatten", "substitute", "trace", "flatten_out">>
           /\ f_calls = 1 /\ defs_built = 0 /\ sites_built = 0
           /\ func_def = Unset /\ call_site_output = Unset /\ result = Unset

C8_Witness ==
    /\ pc = "raised"
    /\ err = "NotImplementedError"
    /\ output = TupleValue
    /\ DOMAIN arg_id_to_arg # {}

\* the identities of the flattened output, "_" for a single array
OutputIds(out) ==
    IF isinstance_pt_Array(out) THEN {<<StrKey("_")>>} ELSE DOMAIN out.leaves

\* C9 as stated: the return names are the output template applied to the
\* output identities, "_" being the identity of a single array.
C9_TemplateOnEveryIdentity ==
    pc \in Built =>
        DOMAIN func_def.returns = {_get_output_arg_id_str(id) : id \in OutputIds(output)}

\* C9 amended: a single-array output has the one return name "_" itself, with
\* no template applied, and return type ARRAY; a container output has the
\* output template applied to each leaf path, and return type DICT_OF_ARRAYS;
\* each name maps to the traced expression of its leaf.
C9_ReturnNames ==
    pc \in Built =>
        IF isinstance_pt_Array(output)
        THEN /\ DOMAIN func_def.returns = {<<"_">>}
             /\ func_def.returns[<<"_">>] = output
             /\ func_def.return_type = "ARRAY"
        ELSE /\ DOMAIN func_def.returns =
                    {_get_output_arg_id_str(path) : path \in DOMAIN output.leaves}
             /\ \A path \in DOMAIN output.leaves :
                    func_def.returns[_get_output_arg_id_str(path)] = output.leaves[path]
             /\ func_def.return_type = "DICT_OF_ARRAYS"

C9_Witness ==
    /\ pc = "repackage"
    /\ func_def.return_type = "ARRAY"
    /\ output.kind = "expr"
    /\ Cardinality(func_def.parameters) >= 2

\* the identities at which the substituted arguments hold a placeholder
PlaceholderIds ==
    UNION {LET v == ArgOf(pl_args, pl_kwargs, key)
           IN IF v.kind = "placeholder" THEN {<<key>>}
              ELSE IF v.kind = "container"
                   THEN {<<key>> \o path : path \in
                            {q \in DOMAIN v.leaves : v.leaves[q].kind = "placeholder"}}
              ELSE {}
           : key \in ArgKeys(pl_args, pl_kwargs)}

PlaceholderAt(arg_id) ==
    LET top == ArgOf(pl_args, pl_kwargs, arg_id[1])
    IN IF Len(arg_id) = 1 THEN top ELSE top.leaves[Tail(arg_id)]

\* C10: whatever the flattener accepts the substitutor handles: it raises
\* neither NotImplementedError nor KeyError, and the placeholders of the
\* substituted arguments sit at exactly the flattened identities, each with
\* the name of its identity and the shape and dtype of the caller's leaf.
C10_SubstitutionMatchesFlattening ==
    /\ ~(pc = "raised" /\ err \in {"KeyError", "NotImplementedError(arg)"})
    /\ pc \in AfterSubstitute =>
          /\ PlaceholderIds = DOMAIN input_id_to_name_in_function
          /\ Len(pl_args) = Len(args)
          /\ DOMAIN pl_kwargs = DOMAIN kwargs
          /\ \A arg_id \in PlaceholderIds :
                /\ PlaceholderAt(arg_id).name = input_id_to_name_in_function[arg_id]
                /\ PlaceholderAt(arg_id).shape = OriginalLeaf(arg_id).shape
                /\ PlaceholderAt(arg_id).dtype = OriginalLeaf(arg_id).dtype

C10_Witness ==
    /\ pc = "trace"
    /\ Cardinality(PlaceholderIds) >= 4
    /\ \E i \in DOMAIN args : args[i].kind = "array"

====
